---- MODULE Spec2Model ----
(***************************************************************************)
(* Model of teahin (src/src/main.rs): discovery of hwmon sensor inputs.    *)
(*                                                                         *)
(* File names and file contents are byte sequences (sequences of 0..255);  *)
(* a Rust String / &str is a byte sequence that is valid UTF-8.  The file  *)
(* system is a root directory (/sys/class/hwmon/) of group directories;    *)
(* a directory is a listing (a sequence of files in read_dir order), each  *)
(* file carrying its name, its bytes and whether it can be opened/read.    *)
(*                                                                         *)
(* A Rust Result is a record with tag "Ok" or "Err"; a panic (unwrap on    *)
(* None/Err, assert_eq!, index out of range) is the tag "Panic": the       *)
(* process is aborted and nothing is returned to the caller.               *)
(***************************************************************************)
EXTENDS Integers, Sequences, FiniteSets, TLC

VARIABLES fs, pc, arg, input, ret, hwmon, dents, idx, hwmons, loaded, result

vars == <<fs, pc, arg, input, ret, hwmon, dents, idx, hwmons, loaded, result>>

(***************************************************************************)
(* Bounds of the model.                                                    *)
(***************************************************************************)
MaxStemLen == 3
MaxValueLen == 3
MaxEntries == 3
MaxGroups == 3

(***************************************************************************)
(* Bytes and text.                                                         *)
(***************************************************************************)
AsciiTable ==
    << " ", "!", "\"", "#", "$", "%", "&", "'", "(", ")", "*", "+", ",", "-",
       ".", "/", "0", "1", "2", "3", "4", "5", "6", "7", "8", "9", ":", ";",
       "<", "=", ">", "?", "@", "A", "B", "C", "D", "E", "F", "G", "H", "I",
       "J", "K", "L", "M", "N", "O", "P", "Q", "R", "S", "T", "U", "V", "W",
       "X", "Y", "Z", "[", "\\", "]", "^", "_", "GRAVE", "a", "b", "c", "d", "e",
       "f", "g", "h", "i", "j", "k", "l", "m", "n", "o", "p", "q", "r", "s",
       "t", "u", "v", "w", "x", "y", "z", "{", "|", "}", "~" >>

\* The byte of one ASCII character (a Rust char / byte literal such as '\n').
Code(c) ==
    IF c = "\n" THEN 10
    ELSE 31 + (CHOOSE i \in 1..Len(AsciiTable) : AsciiTable[i] = c)

\* The bytes of a string literal, written as a tuple of its characters.
Str(cs) == [i \in 1..Len(cs) |-> Code(cs[i])]

\* The bytes the program's literals and patterns name.
ChA == Code("A")
Chz == Code("z")
Ch0 == Code("0")
Ch9 == Code("9")
ChUnderscore == Code("_")
ChNewline == Code("\n")
ChPlus == Code("+")
ChMinus == Code("-")

\* The literals "in", "fan", "temp", "V", " RPM" and "C".
TagIn == Str(<<"i", "n">>)
TagFan == Str(<<"f", "a", "n">>)
TagTemp == Str(<<"t", "e", "m", "p">>)
UnitV == Str(<<"V">>)
UnitRpm == Str(<<" ", "R", "P", "M">>)
UnitTemp == <<195, 130, 194, 176>> \o Str(<<"C">>)

\* s[a..b) in Rust's offsets (0-based, end exclusive).
Slice(s, a, b) == [i \in 1..(b - a) |-> s[a + i]]

EndsWith(s, suf) ==
    /\ Len(s) >= Len(suf)
    /\ Slice(s, Len(s) - Len(suf), Len(s)) = suf

\* The suffixes "_input" (of a value file) and "_label" (of its label file).
InputSuffix == Str(<<"_", "i", "n", "p", "u", "t">>)
LabelSuffix == Str(<<"_", "l", "a", "b", "e", "l">>)

Min(a, b) == IF a <= b THEN a ELSE b

\* The length of the well-formed UTF-8 sequence that starts at s[i], or 0.
Utf8LenAt(s, i) ==
    LET n == Len(s)
        b0 == s[i]
        b1 == IF i + 1 <= n THEN s[i + 1] ELSE 0
        b2 == IF i + 2 <= n THEN s[i + 2] ELSE 0
        b3 == IF i + 3 <= n THEN s[i + 3] ELSE 0
        Cont(b) == b \in 128..191
    IN  IF b0 <= 127 THEN 1
        ELSE IF b0 \in 194..223 /\ Cont(b1) THEN 2
        ELSE IF b0 = 224 /\ b1 \in 160..191 /\ Cont(b2) THEN 3
        ELSE IF b0 \in 225..236 /\ Cont(b1) /\ Cont(b2) THEN 3
        ELSE IF b0 = 237 /\ b1 \in 128..159 /\ Cont(b2) THEN 3
        ELSE IF b0 \in 238..239 /\ Cont(b1) /\ Cont(b2) THEN 3
        ELSE IF b0 = 240 /\ b1 \in 144..191 /\ Cont(b2) /\ Cont(b3) THEN 4
        ELSE IF b0 \in 241..243 /\ Cont(b1) /\ Cont(b2) /\ Cont(b3) THEN 4
        ELSE IF b0 = 244 /\ b1 \in 128..143 /\ Cont(b2) /\ Cont(b3) THEN 4
        ELSE 0

RECURSIVE Utf8From(_, _)
Utf8From(s, i) ==
    IF i > Len(s) THEN TRUE
    ELSE LET k == Utf8LenAt(s, i)
         IN  k > 0 /\ Utf8From(s, i + k)

\* str::from_utf8(s).is_ok(), OsStr::to_str(s).is_some()
IsUtf8(s) == Utf8From(s, 1)

(***************************************************************************)
(* Results.                                                                *)
(***************************************************************************)
Ok(v) == [tag |-> "Ok", val |-> v]
Err(e) == [tag |-> "Err", err |-> e]
Panic == [tag |-> "Panic"]
None == [tag |-> "None"]

(***************************************************************************)
(* The file system the program reads.                                      *)
(***************************************************************************)
File(fname, data, perm) == [fname |-> fname, data |-> data, perm |-> perm]
Dir(listable, files) == [listable |-> listable, files |-> files]

\* The position of the file named fname in the directory, or 0.
Lookup(dir, fname) ==
    IF \E i \in 1..Len(dir.files) : dir.files[i].fname = fname
    THEN CHOOSE i \in 1..Len(dir.files) : dir.files[i].fname = fname
    ELSE 0

\* fs::read_to_string(dir/fname)
ReadToString(dir, fname) ==
    LET i == Lookup(dir, fname)
    IN  IF i = 0 THEN Err("NotFound")
        ELSE IF ~dir.files[i].perm THEN Err("PermissionDenied")
        ELSE IF ~IsUtf8(dir.files[i].data) THEN Err("InvalidData")
        ELSE Ok(dir.files[i].data)

\* File::open(dir/fname): the handle is the name of the file it refers to.
FileOpen(dir, fname) ==
    LET i == Lookup(dir, fname)
    IN  IF i = 0 THEN Err("NotFound")
        ELSE IF ~dir.files[i].perm THEN Err("PermissionDenied")
        ELSE Ok(fname)

(***************************************************************************)
(* The pattern RE = ([A-z]+)(\d+)_ and Regex::captures.                    *)
(***************************************************************************)
\* The class [A-z]: every character from 'A' to 'z' in code-point order.
IsAz(b) == b \in ChA..Chz

\* The class \d: the pattern is Unicode-aware, so \d is the general category
\* Nd (decimal digit) of Unicode 16.0, as ranges of code points.
NdRanges ==
    { <<48, 57>>, <<1632, 1641>>, <<1776, 1785>>, <<1984, 1993>>,
      <<2406, 2415>>, <<2534, 2543>>, <<2662, 2671>>, <<2790, 2799>>,
      <<2918, 2927>>, <<3046, 3055>>, <<3174, 3183>>, <<3302, 3311>>,
      <<3430, 3439>>, <<3558, 3567>>, <<3664, 3673>>, <<3792, 3801>>,
      <<3872, 3881>>, <<4160, 4169>>, <<4240, 4249>>, <<6112, 6121>>,
      <<6160, 6169>>, <<6470, 6479>>, <<6608, 6617>>, <<6784, 6793>>,
      <<6800, 6809>>, <<6992, 7001>>, <<7088, 7097>>, <<7232, 7241>>,
      <<7248, 7257>>, <<42528, 42537>>, <<43216, 43225>>, <<43264, 43273>>,
      <<43472, 43481>>, <<43504, 43513>>, <<43600, 43609>>,
      <<44016, 44025>>, <<65296, 65305>>, <<66720, 66729>>,
      <<68912, 68921>>, <<68928, 68937>>, <<69734, 69743>>,
      <<69872, 69881>>, <<69942, 69951>>, <<70096, 70105>>,
      <<70384, 70393>>, <<70736, 70745>>, <<70864, 70873>>,
      <<71248, 71257>>, <<71360, 71369>>, <<71376, 71395>>,
      <<71472, 71481>>, <<71904, 71913>>, <<72016, 72025>>,
      <<72688, 72697>>, <<72784, 72793>>, <<73040, 73049>>,
      <<73120, 73129>>, <<73552, 73561>>, <<90416, 90425>>,
      <<92768, 92777>>, <<92864, 92873>>, <<93008, 93017>>,
      <<93552, 93561>>, <<118000, 118009>>,
      <<120782, 120831>>, <<123200, 123209>>, <<123632, 123641>>,
      <<124144, 124153>>, <<124401, 124410>>, <<125264, 125273>>,
      <<130032, 130041>> }

IsNd(cp) == \E r \in NdRanges : r[1] <= cp /\ cp <= r[2]

\* The code point of the UTF-8 sequence of k bytes that starts at s[i].
CodePointAt(s, i, k) ==
    IF k = 1 THEN s[i]
    ELSE IF k = 2 THEN (s[i] - 192) * 64 + (s[i + 1] - 128)
    ELSE IF k = 3
    THEN (s[i] - 224) * 4096 + (s[i + 1] - 128) * 64 + (s[i + 2] - 128)
    ELSE (s[i] - 240) * 262144 + (s[i + 1] - 128) * 4096
            + (s[i + 2] - 128) * 64 + (s[i + 3] - 128)

\* The length in bytes of the digit (\d) that starts at s[i], or 0.
DigitLenAt(s, i) ==
    IF s[i] <= 127 THEN (IF s[i] \in Ch0..Ch9 THEN 1 ELSE 0)
    ELSE LET k == Utf8LenAt(s, i)
         IN  IF k > 0 /\ IsNd(CodePointAt(s, i, k)) THEN k ELSE 0

\* s[a..b) is a run of one or more digits.
RECURSIVE IsDigitRun(_, _, _)
IsDigitRun(s, a, b) ==
    /\ a < b
    /\ LET k == DigitLenAt(s, a + 1)
       IN  /\ k > 0
           /\ a + k <= b
           /\ (a + k = b \/ IsDigitRun(s, a + k, b))

\* The matches of the pattern that start at offset st: <<a, b>> where group 1
\* is s[st..a), group 2 is s[a..b) and the underscore is at offset b.
MatchesAt(s, st) ==
    { m \in (st + 1..Len(s)) \X (st + 2..Len(s)) :
        /\ \A p \in st + 1..m[1] : IsAz(s[p])
        /\ IsDigitRun(s, m[1], m[2])
        /\ m[2] < Len(s)
        /\ s[m[2] + 1] = ChUnderscore }

\* Both repetitions are greedy: the longest group 1, then the longest group 2.
GreedyMatch(ms) ==
    CHOOSE m \in ms :
        \A o \in ms : o[1] < m[1] \/ (o[1] = m[1] /\ o[2] <= m[2])

\* The search for the leftmost match, from offset st on.
RECURSIVE FirstMatch(_, _)
FirstMatch(s, st) ==
    IF st >= Len(s) THEN None
    ELSE LET ms == MatchesAt(s, st)
         IN  IF ms = {} THEN FirstMatch(s, st + 1)
             ELSE LET m == GreedyMatch(ms)
                  IN  [tag |-> "Some", g1 |-> <<st, m[1]>>, g2 |-> <<m[1], m[2]>>]

\* RE.captures(s): the leftmost match; the pattern is not anchored.
Captures(s) == FirstMatch(s, 0)

(***************************************************************************)
(* Type and Input::new.                                                    *)
(***************************************************************************)
Voltage == [k |-> "Voltage"]
Temp == [k |-> "Temp"]
Fan == [k |-> "Fan"]
Other(m) == [k |-> "Other", m |-> m]
Some(s) == [tag |-> "Some", val |-> s]

\* TypeOf without the "fan" arm: a fan falls through to Other.
TypeOfNoFan(typ_name) ==
    IF typ_name = TagIn THEN Voltage
    ELSE IF typ_name = TagTemp THEN Temp
    ELSE Other(Some(typ_name))

\* match typ_name.as_str() { "in" => .., "fan" => .., "temp" => .., _ => .. }
TypeOf(typ_name) ==
    IF typ_name = TagIn THEN Voltage
    ELSE IF typ_name = TagFan THEN Fan
    ELSE IF typ_name = TagTemp THEN Temp
    ELSE Other(Some(typ_name))

\* PopNewline that checks the final newline but leaves it in the label.
PopNewlineKept(s) ==
    IF Len(s) > 0 /\ s[Len(s)] = ChNewline THEN Ok(s) ELSE Panic

\* Ok(mut s) => { let c = s.pop(); assert_eq!(c, Some('\n')); s }
\* The assertion fails, and the process aborts, unless the last character of
\* the label file is a newline; an empty file pops None.
PopNewline(s) ==
    IF Len(s) > 0 /\ s[Len(s)] = ChNewline
    THEN Ok(Slice(s, 0, Len(s) - 1))
    ELSE Panic

\* let label = match fs::read_to_string(label_path) { .. }
LabelOf(dir, name) ==
    LET r == ReadToString(dir, name \o LabelSuffix)
    IN  IF r.tag = "Err"
        THEN IF r.err = "NotFound" THEN Ok(name) ELSE r
        ELSE PopNewline(r.val)

\* Input::new(dir/fname)
InputNew(dir, fname) ==
    IF ~IsUtf8(fname) THEN Err("incorrect path")
    ELSE LET parsed == Captures(fname)
         IN  IF parsed.tag = "None" THEN Err("incorrect path to input")
             ELSE LET typ == TypeOf(Slice(fname, parsed.g1[1], parsed.g1[2]))
                      name == Slice(fname, 0, parsed.g2[2])
                      label == LabelOf(dir, name)
                      f == FileOpen(dir, fname)
                  IN  IF label.tag # "Ok" THEN label
                      ELSE IF f.tag = "Err" THEN f
                      ELSE Ok([f |-> f.val, label |-> label.val, typ |-> typ])

(***************************************************************************)
(* u32 and f64.  A u32 is <<hi, lo>>, two 16-bit halves, so that values up *)
(* to 2^32 - 1 and the overflow past them are computed exactly.            *)
(***************************************************************************)
Half == 65536

\* result.checked_mul(10)?.checked_add(d)
U32MulAdd(x, d) ==
    LET lo == x[2] * 10 + d
        hi == x[1] * 10 + (lo \div Half)
    IN  IF hi >= Half THEN Err("PosOverflow") ELSE Ok(<<hi, lo % Half>>)

RECURSIVE ParseDigits(_, _, _)
ParseDigits(s, i, acc) ==
    IF i > Len(s) THEN Ok(acc)
    ELSE IF s[i] \notin Ch0..Ch9 THEN Err("InvalidDigit")
    ELSE LET r == U32MulAdd(acc, s[i] - Ch0)
         IN  IF r.tag = "Err" THEN r ELSE ParseDigits(s, i + 1, r.val)

\* s.parse::<u32>(): an optional '+', then one or more ASCII digits.
ParseU32(s) ==
    IF Len(s) = 0 THEN Err("Empty")
    ELSE IF Len(s) = 1 /\ s[1] \in {ChPlus, ChMinus} THEN Err("InvalidDigit")
    ELSE IF s[1] = ChPlus THEN ParseDigits(s, 2, <<0, 0>>)
    ELSE ParseDigits(s, 1, <<0, 0>>)

\* An f64 is the exact quotient num / den of a u32 and a divisor.
F64(num, den) == [num |-> num, den |-> den]

(***************************************************************************)
(* Updateable for Input.                                                   *)
(***************************************************************************)
BufSize == 4096

\* self.f.read_at(&mut buf, 0): the bytes read, or an I/O error.
ReadAt(dir, f, ioerr) ==
    LET i == Lookup(dir, f)
    IN  IF ioerr \/ i = 0 THEN Err("Io")
        ELSE Ok(Slice(dir.files[i].data, 0, Min(Len(dir.files[i].data), BufSize)))

\* Input::update with the bytes that read_at returned.
Update(self, read) ==
    IF read.tag = "Err" THEN Ok(F64(<<0, 0>>, 1))
    ELSE LET n == Len(read.val)
         IN  IF n = 0 THEN Panic
             ELSE LET s == Slice(read.val, 0, n - 1)
                      r == ParseU32(s)
                  IN  IF ~IsUtf8(s) THEN Panic
                      ELSE IF r.tag = "Err" THEN Panic
                      ELSE IF self.typ = Temp THEN Ok(F64(r.val, 1000))
                      ELSE Ok(F64(r.val, 1))

\* Input::unit: the bytes of the string returned.
Unit(self) ==
    IF self.typ = Voltage THEN UnitV
    ELSE IF self.typ = Fan THEN UnitRpm
    ELSE IF self.typ = Temp THEN UnitTemp
    ELSE IF self.typ.m.tag = "None" THEN <<>>
    ELSE self.typ.m.val

\* Input::label
Label(self) == self.label

(***************************************************************************)
(* Hwmon::load.                                                            *)
(***************************************************************************)
NameFile == Str(<<"n", "a", "m", "e">>)

\* The local vector `inputs` after the loop over the first n directory
\* entries: one Result of Input::new for each entry whose name is UTF-8 and
\* ends with "_input", in read_dir order.
RECURSIVE LoadInputs(_, _)
LoadInputs(dir, n) ==
    IF n = 0 THEN <<>>
    ELSE LET dent == dir.files[n]
             rest == LoadInputs(dir, n - 1)
         IN  IF IsUtf8(dent.fname) /\ EndsWith(dent.fname, InputSuffix)
             THEN Append(rest, InputNew(dir, dent.fname))
             ELSE rest

\* Hwmon::load(dir): the name file is read first, then the directory is
\* listed; a panic inside Input::new aborts the process; the vector that the
\* loop filled is dropped and the Hwmon is built with `inputs: Vec::new()`.
Load(dir) ==
    LET name == ReadToString(dir, NameFile)
        inputs == LoadInputs(dir, Len(dir.files))
    IN  IF name.tag = "Err" THEN name
        ELSE IF ~dir.listable THEN Err("read_dir")
        ELSE IF \E i \in 1..Len(inputs) : inputs[i].tag = "Panic" THEN Panic
        ELSE Ok([name |-> name.val, inputs |-> <<>>])


(***************************************************************************)
(* The inputs the model draws from.                                        *)
(***************************************************************************)
\* All byte sequences over alphabet of length 0..n.
SeqsUpTo(alphabet, n) == UNION { [1..k -> alphabet] : k \in 0..n }

\* Every name <stem>_input with a stem of up to MaxStemLen of these bytes.
StemAlphabet == { Code("i"), Code("n"), Code("1"), Code("_"), Code("^"), Code("-") }
StemNames == { st \o InputSuffix : st \in SeqsUpTo(StemAlphabet, MaxStemLen) }

\* One input of each kind, as the kernel names them.
KindNames ==
    { Str(<<"i", "n", "0">>) \o InputSuffix,
      Str(<<"f", "a", "n", "2">>) \o InputSuffix,
      Str(<<"t", "e", "m", "p", "1">>) \o InputSuffix,
      Str(<<"c", "u", "r", "r", "1">>) \o InputSuffix }

\* Names with more than one digit, a second tag, an upper-case tag, a
\* leading digit, digits of two, three and four bytes (Arabic-Indic one,
\* Devanagari one, mathematical bold zero, NKo zero), and a name that is not
\* UTF-8.
OddNames ==
    { Str(<<"t", "e", "m", "p", "1", "0">>) \o InputSuffix,
      Str(<<"i", "n", "1", "_", "f", "a", "n", "2">>) \o InputSuffix,
      Str(<<"F", "a", "n", "1">>) \o InputSuffix,
      Str(<<"1", "t", "e", "m", "p", "1">>) \o InputSuffix,
      Str(<<"i", "n">>) \o <<217, 161>> \o InputSuffix,
      Str(<<"i", "n">>) \o <<224, 165, 167>> \o InputSuffix,
      Str(<<"f", "a", "n">>) \o <<240, 157, 159, 142>> \o <<223, 128>> \o InputSuffix,
      <<255>> \o Str(<<"1">>) \o InputSuffix }

InputNames == StemNames \cup KindNames \cup OddNames

\* Contents of a label file: empty, with and without the final newline,
\* two newlines, a space inside, a two-byte character, invalid UTF-8.
LabelContents ==
    { <<>>,
      Str(<<"\n">>),
      Str(<<"L">>),
      Str(<<"L", "\n">>),
      Str(<<"L", "\n", "\n">>),
      Str(<<"C", "P", "U", " ", "C", "o", "r", "e", "\n">>),
      <<195, 169>> \o Str(<<"\n">>),
      <<255>> \o Str(<<"\n">>) }

\* The label files tried beside the input file fname: none; for every name
\* one named after the name without its _input suffix; for the kernel-style
\* names one named after every prefix of fname, with every content.
LabelFiles(fname) ==
    LET stem == Slice(fname, 0, Len(fname) - Len(InputSuffix))
        few == { <<File(stem \o LabelSuffix, d, TRUE)>> :
                    d \in { Str(<<"L", "\n">>), Str(<<"L">>) } }
        wide == { <<File(Slice(fname, 0, k) \o LabelSuffix, d, p)>> :
                    k \in 1..Len(fname), d \in LabelContents, p \in BOOLEAN }
    IN  {<<>>} \cup few \cup (IF fname \in KindNames \cup OddNames THEN wide ELSE {})

\* Contents of a value file.
ValueAlphabet ==
    { Code("0"), Code("7"), Code("\n"), Code("+"), Code("x"), 255 }
ValueContents ==
    SeqsUpTo(ValueAlphabet, MaxValueLen) \cup
    { Str(<<"4", "5", "2", "3", "0", "\n">>),
      Str(<<"3", "3", "0", "0", "\n">>),
      Str(<<"4", "2", "9", "4", "9", "6", "7", "2", "9", "5", "\n">>),
      Str(<<"4", "2", "9", "4", "9", "6", "7", "2", "9", "6", "\n">>),
      Str(<<"0", "0", "0", "0", "0", "0", "0", "0", "0", "0", "0", "7", "\n">>),
      Str(<<"9", "9", "9", "9", "9", "9", "9", "9", "9", "9", "9", "9", "\n">>),
      Str(<<"-", "5", "\n">>),
      <<195, 169>> \o Str(<<"\n">>) }

InitialValue == Str(<<"0", "\n">>)
FewValues ==
    { InitialValue,
      Str(<<"4", "5", "2", "3", "0", "\n">>),
      Str(<<"3", "3", "0", "0", "\n">>) }

(***************************************************************************)
(* State machine of one Input: construction, then the calls of Updateable, *)
(* while the sensor rewrites the value file.                               *)
(***************************************************************************)
Idle ==
    /\ hwmon = None
    /\ dents = <<>>
    /\ idx = 0
    /\ hwmons = <<>>
    /\ loaded = <<>>
    /\ result = None

InitInput ==
    /\ \E fname \in InputNames, perm \in BOOLEAN :
       \E labels \in LabelFiles(fname) :
          /\ arg = fname
          /\ fs = [listable |-> TRUE,
                   dirs |-> <<Dir(TRUE, <<File(fname, InitialValue, perm)>> \o labels)>>]
    /\ pc = "start"
    /\ input = None
    /\ ret = None
    /\ Idle

\* let input = Input::new(path)
DoInputNew ==
    /\ pc = "start"
    /\ input' = InputNew(fs.dirs[1], arg)
    /\ pc' = IF input'.tag = "Ok" THEN "ready"
             ELSE IF input'.tag = "Err" THEN "failed" ELSE "aborted"
    /\ UNCHANGED <<fs, arg, ret, hwmon, dents, idx, hwmons, loaded, result>>

\* The sensor (the kernel) replaces the content of the value file by one of
\* the contents in `values`.
SensorWrites(values) ==
    /\ pc = "ready"
    /\ \E data \in values :
          /\ data # fs.dirs[1].files[1].data
          /\ fs' = [fs EXCEPT !.dirs[1].files[1].data = data]
    /\ ret' = None
    /\ UNCHANGED <<pc, arg, input, hwmon, dents, idx, hwmons, loaded, result>>

\* A sensor that alternates between a few readings.
SensorStep == SensorWrites(FewValues)

\* A sensor file that may hold any content.
SensorWrite == SensorWrites(ValueContents)

\* input.update()
DoUpdate ==
    /\ pc = "ready"
    /\ \E ioerr \in BOOLEAN :
          LET read == ReadAt(fs.dirs[1], input.val.f, ioerr)
              out == Update(input.val, read)
          IN  /\ ret' = [tag |-> "Ret", op |-> "update", read |-> read, out |-> out]
              /\ pc' = IF out.tag = "Panic" THEN "aborted" ELSE "ready"
    /\ UNCHANGED <<fs, arg, input, hwmon, dents, idx, hwmons, loaded, result>>

\* input.unit()
DoUnit ==
    /\ pc = "ready"
    /\ ret' = [tag |-> "Ret", op |-> "unit", out |-> Ok(Unit(input.val))]
    /\ UNCHANGED <<fs, pc, arg, input, hwmon, dents, idx, hwmons, loaded, result>>

\* input.label()
DoLabel ==
    /\ pc = "ready"
    /\ ret' = [tag |-> "Ret", op |-> "label", out |-> Ok(Label(input.val))]
    /\ UNCHANGED <<fs, pc, arg, input, hwmon, dents, idx, hwmons, loaded, result>>

NextInput == DoInputNew \/ SensorStep \/ DoUpdate \/ DoUnit \/ DoLabel

SpecInput == InitInput /\ [][NextInput]_vars

\* The default specification: the life of one Input.
Spec == SpecInput

(***************************************************************************)
(* State machine of the readings of one Input of each kind, over every     *)
(* content of its value file.                                              *)
(***************************************************************************)
InitValue ==
    /\ \E fname \in KindNames :
          /\ arg = fname
          /\ fs = [listable |-> TRUE,
                   dirs |-> <<Dir(TRUE, <<File(fname, InitialValue, TRUE)>>)>>]
    /\ pc = "start"
    /\ input = None
    /\ ret = None
    /\ Idle

NextValue == DoInputNew \/ SensorWrite \/ DoUpdate \/ DoUnit \/ DoLabel

SpecValue == InitValue /\ [][NextValue]_vars

(***************************************************************************)
(* State machine of one Hwmon::load.                                       *)
(***************************************************************************)
\* The name file of a group: missing, a line, a line without its newline,
\* not UTF-8, unreadable.
NameFiles ==
    { <<>>,
      <<File(NameFile, Str(<<"c", "p", "u", "\n">>), TRUE)>>,
      <<File(NameFile, Str(<<"c", "p", "u">>), TRUE)>>,
      <<File(NameFile, <<255>> \o Str(<<"\n">>), TRUE)>>,
      <<File(NameFile, Str(<<"c", "p", "u", "\n">>), FALSE)>> }

Temp1 == Str(<<"t", "e", "m", "p", "1">>)
In0 == Str(<<"i", "n", "0">>)

\* The files a group directory is filled from.
HwmonFiles ==
    { File(Temp1 \o InputSuffix, Str(<<"4", "5", "2", "3", "0", "\n">>), TRUE),
      File(Temp1 \o LabelSuffix, Str(<<"C", "P", "U", " ", "C", "o", "r", "e", "\n">>), TRUE),
      File(Temp1 \o LabelSuffix, Str(<<"C", "P", "U">>), TRUE),
      File(In0 \o InputSuffix, Str(<<"3", "3", "0", "0", "\n">>), TRUE),
      File(In0 \o InputSuffix, Str(<<"3", "3", "0", "0", "\n">>), FALSE),
      File(Str(<<"f", "a", "n", "2">>) \o InputSuffix, Str(<<"0", "\n">>), TRUE),
      File(InputSuffix, Str(<<"1", "\n">>), TRUE),
      File(Str(<<"1", "i", "n", "0">>) \o InputSuffix, Str(<<"1", "\n">>), TRUE),
      File(<<255>> \o InputSuffix, Str(<<"1", "\n">>), TRUE),
      File(Str(<<"u", "e", "v", "e", "n", "t">>), <<>>, TRUE) }

\* Listings of up to MaxEntries files with distinct names.
Listings ==
    { l \in UNION { [1..k -> HwmonFiles] : k \in 0..MaxEntries } :
        \A i, j \in 1..Len(l) : i # j => l[i].fname # l[j].fname }

HwmonDirs ==
    { Dir(listable, name \o l) :
        listable \in BOOLEAN, name \in NameFiles, l \in Listings }

InitHwmon ==
    /\ \E dir \in HwmonDirs : fs = [listable |-> TRUE, dirs |-> <<dir>>]
    /\ pc = "start"
    /\ arg = <<>>
    /\ input = None
    /\ ret = None
    /\ Idle

\* let hwmon = Hwmon::load(dir)
DoLoad ==
    /\ pc = "start"
    /\ hwmon' = Load(fs.dirs[1])
    /\ pc' = IF hwmon'.tag = "Ok" THEN "done"
             ELSE IF hwmon'.tag = "Err" THEN "failed" ELSE "aborted"
    /\ UNCHANGED <<fs, arg, input, ret, dents, idx, hwmons, loaded, result>>

NextHwmon == DoLoad

SpecHwmon == InitHwmon /\ [][NextHwmon]_vars

(***************************************************************************)
(* State machine of Hwmon::get_all.                                        *)
(***************************************************************************)
\* The group directories the monitoring root is filled from: an empty
\* group, groups with inputs (well-formed, malformed, unopenable), a group
\* without a name file, one whose name is not UTF-8, one that cannot be
\* listed, and one with a label file that lacks its newline.
RootDirs ==
    { Dir(TRUE, <<File(NameFile, Str(<<"c", "p", "u", "\n">>), TRUE)>>),
      Dir(TRUE, <<File(NameFile, Str(<<"n", "c", "t", "\n">>), TRUE)>> \o <<File(Temp1 \o InputSuffix, InitialValue, TRUE),
                               File(Temp1 \o LabelSuffix, Str(<<"L", "\n">>), TRUE)>>),
      Dir(TRUE, <<File(NameFile, Str(<<"c", "p", "u", "\n">>), TRUE)>> \o <<File(InputSuffix, InitialValue, TRUE),
                               File(In0 \o InputSuffix, InitialValue, FALSE)>>),
      Dir(TRUE, <<File(In0 \o InputSuffix, InitialValue, TRUE)>>),
      Dir(TRUE, <<File(NameFile, <<255>> \o Str(<<"\n">>), TRUE)>>),
      Dir(FALSE, <<File(NameFile, Str(<<"c", "p", "u", "\n">>), TRUE)>>),
      Dir(TRUE, <<File(NameFile, Str(<<"c", "p", "u", "\n">>), TRUE)>> \o <<File(Temp1 \o InputSuffix, InitialValue, TRUE),
                               File(Temp1 \o LabelSuffix, Str(<<"L">>), TRUE)>>) }

Roots ==
    { [listable |-> l, dirs |-> ds] :
        l \in BOOLEAN, ds \in UNION { [1..k -> RootDirs] : k \in 0..MaxGroups } }

InitGetAll ==
    /\ fs \in Roots
    /\ pc = "start"
    /\ arg = <<>>
    /\ input = None
    /\ ret = None
    /\ Idle

\* fs::read_dir(&hwmon_dir)?.collect::<io::Result<Vec<DirEntry>>>()?
GetAllStart ==
    /\ pc = "start"
    /\ IF fs.listable
       THEN /\ dents' = fs.dirs
            /\ idx' = 1
            /\ pc' = "loop"
            /\ result' = result
       ELSE /\ result' = Err("read_dir")
            /\ pc' = "failed"
            /\ UNCHANGED <<dents, idx>>
    /\ UNCHANGED <<fs, arg, input, ret, hwmon, hwmons, loaded>>

\* One iteration of the loop: hwmons.push(Self::load(&abs_path)?)
GetAllIter ==
    /\ pc = "loop"
    /\ idx <= Len(dents)
    /\ hwmon' = Load(dents[idx])
    /\ loaded' = Append(loaded, idx)
    /\ IF hwmon'.tag = "Ok"
       THEN /\ hwmons' = Append(hwmons, hwmon'.val)
            /\ idx' = idx + 1
            /\ UNCHANGED <<pc, result>>
       ELSE IF hwmon'.tag = "Err"
       THEN /\ result' = hwmon'
            /\ hwmons' = <<>>
            /\ pc' = "failed"
            /\ idx' = idx
       ELSE /\ pc' = "aborted"
            /\ UNCHANGED <<hwmons, idx, result>>
    /\ UNCHANGED <<fs, arg, input, ret, dents>>

\* Ok(hwmons)
GetAllReturn ==
    /\ pc = "loop"
    /\ idx > Len(dents)
    /\ result' = Ok(hwmons)
    /\ pc' = "done"
    /\ UNCHANGED <<fs, arg, input, ret, hwmon, dents, idx, hwmons, loaded>>

NextGetAll == GetAllStart \/ GetAllIter \/ GetAllReturn

SpecGetAll == InitGetAll /\ [][NextGetAll]_vars

(***************************************************************************)
(* What the specification says, stated independently of the operators      *)
(* above.                                                                  *)
(***************************************************************************)
ChZ == Code("Z")
Cha == Code("a")
IsLetter(b) == b \in ChA..ChZ \/ b \in Cha..Chz

\* The splits <<a, b>> of s into letters s[0..a), digits s[a..b) and a rest
\* that starts with an underscore: s matches ^[A-Za-z]+\d+_
PatternSplits(s) ==
    { m \in (1..Len(s)) \X (2..Len(s)) :
        /\ \A p \in 1..m[1] : IsLetter(s[p])
        /\ IsDigitRun(s, m[1], m[2])
        /\ m[2] < Len(s)
        /\ s[m[2] + 1] = ChUnderscore }

MatchesPattern(s) == PatternSplits(s) # {}

\* s is <letters><digits>_input
WellFormed(s) ==
    \E m \in PatternSplits(s) : Slice(s, m[2], Len(s)) = InputSuffix

LetterRun(s) == LET m == CHOOSE x \in PatternSplits(s) : TRUE IN Slice(s, 0, m[1])
Stem(s) == LET m == CHOOSE x \in PatternSplits(s) : TRUE IN Slice(s, 0, m[2])

\* The tag table of the specification.
KindOf(tag) ==
    IF tag = TagIn THEN Voltage
    ELSE IF tag = TagFan THEN Fan
    ELSE IF tag = TagTemp THEN Temp
    ELSE Other(Some(tag))

\* The degree sign, U+00B0, and C.
DegreeC == <<194, 176>> \o Str(<<"C">>)

\* The unit table of the specification.
UnitOf(typ) ==
    IF typ = Voltage THEN Str(<<"V">>)
    ELSE IF typ = Fan THEN Str(<<" ", "R", "P", "M">>)
    ELSE IF typ = Temp THEN DegreeC
    ELSE IF typ.m.tag = "None" THEN <<>>
    ELSE typ.m.val

TheDir == fs.dirs[1]
Constructed == input.tag = "Ok"
Attempted == pc # "start"

\* The text of the file named fname, when it is there and reads as text.
HasText(dir, fname) == ReadToString(dir, fname).tag = "Ok"
TextOf(dir, fname) == ReadToString(dir, fname).val
Absent(dir, fname) == Lookup(dir, fname) = 0
EndsInNewline(s) == Len(s) > 0 /\ s[Len(s)] = ChNewline
Openable(dir, fname) == Lookup(dir, fname) # 0 /\ dir.files[Lookup(dir, fname)].perm

\* The decimal digits of a u32, as Display prints it.
RECURSIVE U32ToDec(_)
U32ToDec(x) ==
    LET qhi == x[1] \div 10
        t == (x[1] % 10) * Half + x[2]
        q == <<qhi, t \div 10>>
        d == <<Ch0 + (t % 10)>>
    IN  IF q = <<0, 0>> THEN d ELSE U32ToDec(q) \o d

RECURSIVE StripZeros(_)
StripZeros(ds) ==
    IF Len(ds) > 1 /\ ds[1] = Ch0 THEN StripZeros(Tail(ds)) ELSE ds

IsDecimal(ds) == Len(ds) > 0 /\ \A i \in 1..Len(ds) : ds[i] \in Ch0..Ch9

(***************************************************************************)
(* Claims.                                                                 *)
(***************************************************************************)
\* The inputs that Input::new constructs from the entries of dir whose name
\* ends in _input, in listing order, the failed constructions left out.
RECURSIVE Successes(_)
Successes(rs) ==
    IF rs = <<>> THEN <<>>
    ELSE IF rs[1].tag = "Ok" THEN <<rs[1].val>> \o Successes(Tail(rs))
    ELSE Successes(Tail(rs))

\* C1: when the name file is readable and the directory can be listed,
\* load returns a group whose inputs are exactly the successfully constructed
\* InputReadings of the _input entries; a failed construction is skipped and
\* does not make the load fail.
C1_LoadReturnsInputs ==
    (Attempted /\ HasText(TheDir, NameFile) /\ TheDir.listable) =>
        /\ hwmon.tag = "Ok"
        /\ hwmon.val.inputs = Successes(LoadInputs(TheDir, Len(TheDir.files)))

\* C2: for every file name ending in _input that does not match
\* ^[A-Za-z]+\d+_ , Input::new returns the malformed-name failure and no
\* Input.
C2_MalformedNameFails ==
    (Attempted /\ EndsWith(arg, InputSuffix) /\ ~MatchesPattern(arg)) =>
        /\ input.tag = "Err"
        /\ input.err \in {"incorrect path", "incorrect path to input"}

\* C3: for every file name <letters><digits>_input whose label file is
\* absent or reads as text ending in a newline, and whose value file can be
\* opened, Input::new succeeds and the kind is given by the letter run alone:
\* in is Voltage, fan is Fan, temp is Temp, any other run is Other(run).
C3_KindFromLetterRun ==
    (/\ Attempted
     /\ WellFormed(arg)
     /\ \/ Absent(TheDir, Stem(arg) \o LabelSuffix)
        \/ /\ HasText(TheDir, Stem(arg) \o LabelSuffix)
           /\ EndsInNewline(TextOf(TheDir, Stem(arg) \o LabelSuffix))
     /\ Openable(TheDir, arg)) =>
        /\ Constructed
        /\ input.val.typ = KindOf(LetterRun(arg))

TagN == Str(<<"n">>)

C3_Witness ==
    /\ Constructed
    /\ WellFormed(arg)
    /\ HasText(TheDir, Stem(arg) \o LabelSuffix)
    /\ LetterRun(arg) = TagN
    /\ input.val.typ = Other(Some(TagN))

\* The value is text that parses as an unsigned decimal integer.
ValidValue(read) ==
    /\ read.tag = "Ok"
    /\ Len(read.val) > 0
    /\ IsDecimal(Slice(read.val, 0, Len(read.val) - 1))

\* C4: update never aborts the process: it returns for every content of the
\* value file and for every read error, and it returns 0.0 whenever the read
\* fails or the value text is not a valid unsigned decimal integer.
C4_UpdateNeverAborts ==
    (ret.tag # "None" /\ ret.op = "update") =>
        /\ ret.out.tag = "Ok"
        /\ ~ValidValue(ret.read) => ret.out.val = F64(<<0, 0>>, 1)

\* C5: for an Input constructed from <stem>_input, label() is the content
\* of <stem>_label without its one final newline when that file exists, and
\* the stem when it does not; it stays so in every later state.
C5_LabelFromFileOrStem ==
    (Constructed /\ WellFormed(arg)) =>
        LET lf == Stem(arg) \o LabelSuffix
        IN  /\ Absent(TheDir, lf) => Label(input.val) = Stem(arg)
            /\ (HasText(TheDir, lf) /\ EndsInNewline(TextOf(TheDir, lf))) =>
                  Label(input.val) \o <<ChNewline>> = TextOf(TheDir, lf)
            /\ (ret.tag # "None" /\ ret.op = "label") => ret.out.val = Label(input.val)

CpuCore == Str(<<"C", "P", "U", " ", "C", "o", "r", "e">>)

C5_Witness ==
    /\ Constructed
    /\ arg = Temp1 \o InputSuffix
    /\ HasText(TheDir, Temp1 \o LabelSuffix)
    /\ ret.tag # "None"
    /\ ret.op = "label"
    /\ ret.out.val = CpuCore

\* C6: when the label file exists and its content does not end with a
\* newline (an empty label file included), Input::new ends in a failure
\* returned to the caller, not in an abort of the process.
C6_BadLabelIsAFailure ==
    (/\ Attempted
     /\ WellFormed(arg)
     /\ HasText(TheDir, Stem(arg) \o LabelSuffix)
     /\ ~EndsInNewline(TextOf(TheDir, Stem(arg) \o LabelSuffix))) =>
        input.tag = "Err"

\* C7: for every value file that holds an unsigned decimal integer N and a
\* final newline, update returns N / 1000 for Temp and N for every other
\* kind; no N makes it fail.
C7_ScaledValue ==
    (/\ ret.tag # "None"
     /\ ret.op = "update"
     /\ ret.read.tag = "Ok"
     /\ EndsInNewline(ret.read.val)
     /\ IsDecimal(Slice(ret.read.val, 0, Len(ret.read.val) - 1))) =>
        /\ ret.out.tag = "Ok"
        /\ U32ToDec(ret.out.val.num)
              = StripZeros(Slice(ret.read.val, 0, Len(ret.read.val) - 1))
        /\ ret.out.val.den = IF input.val.typ = Temp THEN 1000 ELSE 1

\* C8: the name of the group that load returns is the content of the name
\* file without its final newline.
C8_NameTrimmed ==
    (pc = "done" /\ EndsInNewline(TextOf(TheDir, NameFile))) =>
        hwmon.val.name \o <<ChNewline>> = TextOf(TheDir, NameFile)

\* C9: unit() depends on the kind alone: V, " RPM", the degree sign and C,
\* the tag of Other(Some(tag)), the empty string for Other(None).
C9_UnitTable ==
    (ret.tag # "None" /\ ret.op = "unit") => ret.out.val = UnitOf(input.val.typ)

\* The load of a group fails when its name file cannot be read as text or
\* its directory cannot be listed; nothing else makes it fail.
LoadFails(dir) == ~HasText(dir, NameFile) \/ ~dir.listable

\* The first entry of the root whose load fails, or 0.
FirstFailing(ds) ==
    IF \E i \in 1..Len(ds) : LoadFails(ds[i])
    THEN CHOOSE i \in 1..Len(ds) :
            LoadFails(ds[i]) /\ \A j \in 1..(i - 1) : ~LoadFails(ds[j])
    ELSE 0

\* C10: get_all is all-or-nothing.  If the root cannot be listed, or the
\* load of an entry fails, get_all returns that failure and no group, and
\* no later entry is loaded; if nothing fails it returns one group per
\* entry of the root, in listing order.
C10_AllOrNothing ==
    LET k == FirstFailing(fs.dirs)
    IN  pc \in {"done", "failed", "aborted"} =>
           IF ~fs.listable
           THEN result = Err("read_dir") /\ hwmons = <<>> /\ loaded = <<>>
           ELSE IF k # 0
           THEN /\ result.tag = "Err"
                /\ hwmons = <<>>
                /\ loaded = [i \in 1..k |-> i]
           ELSE /\ result.tag = "Ok"
                /\ Len(result.val) = Len(fs.dirs)
                /\ \A i \in 1..Len(fs.dirs) :
                      Load(fs.dirs[i]).tag = "Ok" =>
                         result.val[i] = Load(fs.dirs[i]).val
                /\ loaded = [i \in 1..Len(fs.dirs) |-> i]

====
